---------------------------- MODULE Spec2Model ----------------------------
(***************************************************************************)
(* A model of src/biginteger.js: arbitrary-size integers held as a         *)
(* little-endian array of base-BASE digits plus a `negative` flag.         *)
(*                                                                         *)
(* Scaling.  The source works in base 1000000 on IEEE doubles, whose       *)
(* integers are exact up to 2^53 (MAX_NATIVE).  TLC's integers are 32 bits *)
(* wide, so BASE^2 of the source cannot even be written down.  The model   *)
(* keeps every formula of the source as a function of BASE and of the      *)
(* width of the native mantissa, and instantiates them with logbase 1      *)
(* (BASE = 10) and a 9-bit mantissa (MAX_NATIVE = 2^9 = 512), which keeps  *)
(* the order  BASE < BASE^2 < MAX_NATIVE < BASE^3  of the source, where    *)
(* 10^6 < 10^12 < 2^53 < 10^18.  A native Number is an integer of the      *)
(* model; every native operation of the source that can leave the exactly  *)
(* representable range is rounded to nearest, ties to even, as a double    *)
(* rounds.                                                                 *)
(*                                                                         *)
(* JavaScript values.  An array hole reads as `undefined` and arithmetic   *)
(* on it gives NaN; both are kept apart from the numbers by two reserved   *)
(* codes.  A BigInteger is a record [digits, negative, ref]: ref tells the *)
(* shared object BigInteger.ZERO ("ZERO") from any other object ("new"),   *)
(* because the source writes to the `negative` field of objects it         *)
(* returns, and ZERO is one of them.                                       *)
(***************************************************************************)
EXTENDS Integers, Sequences, FiniteSets, TLC

VARIABLES
    ZERO_negative,  \* the `negative` field of the shared object BigInteger.ZERO
    op,             \* the public operation executed last
    a,              \* its receiver
    b,              \* its argument
    c,              \* its second argument, for the operations that take two
    out,            \* its outcome: a value, a boolean, a throw, or no return
    frame           \* the locals of the isPrime call in progress, or of the last one

vars == <<ZERO_negative, op, a, b, c, out, frame>>

--------------------------------------------------------------------------
(* Program constants (scaled, see above) *)

BASE == 10

MantissaBits == 9

RECURSIVE Pow2(_)
Pow2(k) == IF k <= 0 THEN 1 ELSE 2 * Pow2(k - 1)

\* 2^MantissaBits: every integer up to it is an exact native Number
MAX_NATIVE_NUMBER == Pow2(MantissaBits)

--------------------------------------------------------------------------
(* Bounds of the model *)

\* longest digit array of an operand of add / subtract / multiply
MaxLen == 2

--------------------------------------------------------------------------
(* JavaScript numbers *)

Undefined == -2000000000

NaN == -1999999999

IsNum(v) == v # Undefined /\ v # NaN

\* ToNumber: undefined becomes NaN
ToNumber(v) == IF IsNum(v) THEN v ELSE NaN

JsAdd(x, y) == IF IsNum(x) /\ IsNum(y) THEN x + y ELSE NaN

JsSub(x, y) == IF IsNum(x) /\ IsNum(y) THEN x - y ELSE NaN

JsMul(x, y) == IF IsNum(x) /\ IsNum(y) THEN x * y ELSE NaN

\* Math.floor(x / d) for a positive integer d
JsFloorDiv(x, d) == IF IsNum(x) THEN x \div d ELSE NaN

\* x % d for a positive integer d: the sign of the result is the dividend's
JsMod(x, d) == IF ~IsNum(x) THEN NaN
               ELSE IF x >= 0 THEN x % d ELSE 0 - ((0 - x) % d)

\* relational operators are false as soon as one side is NaN / undefined
JsLt(x, y) == IsNum(x) /\ IsNum(y) /\ x < y

JsGt(x, y) == IsNum(x) /\ IsNum(y) /\ x > y

Max(x, y) == IF x >= y THEN x ELSE y

\* e once v has its value: the statements of a loop body are executed one
\* after the other, not when their results are first read
Strict(v, e) == CASE v = v -> e

\* Math.abs on an integer
Abs(n) == IF n < 0 THEN 0 - n ELSE n

--------------------------------------------------------------------------
(* Native arithmetic that can leave the exact range: a double keeps        *)
(* MantissaBits significant bits and rounds to nearest, ties to even.      *)
(* A non-negative double is held exactly as a fraction [n, d] whose        *)
(* denominator is a power of two.                                          *)

\* the integer nearest to n / d, ties to the even one (n >= 0, d > 0)
RoundHalfEven(n, d) ==
    IF 2 * (n % d) > d \/ (2 * (n % d) = d /\ (n \div d) % 2 = 1)
    THEN (n \div d) + 1
    ELSE n \div d

RECURSIVE ExponentUp(_, _, _)
\* the largest e >= 0 with q * 2^e <= p, for p >= q
ExponentUp(p, q, e) == IF 2 * q <= p THEN ExponentUp(p, 2 * q, e + 1) ELSE e

RECURSIVE ExponentDown(_, _, _)
\* the smallest j >= 0 with p * 2^j >= q
ExponentDown(p, q, j) == IF p < q THEN ExponentDown(2 * p, q, j + 1) ELSE j

\* the binary exponent of the rational p / q (p > 0, q > 0)
Exponent(p, q) == IF p >= q THEN ExponentUp(p, q, 0) ELSE 0 - ExponentDown(p, q, 0)

\* p / q rounded to a multiple of 2^(-k)
RoundToBit(p, q, k) ==
    IF k >= 0
    THEN [n |-> RoundHalfEven(p * Pow2(k), q), d |-> Pow2(k)]
    ELSE [n |-> RoundHalfEven(p, q * Pow2(0 - k)) * Pow2(0 - k), d |-> 1]

\* the double nearest to the rational p / q (p >= 0, q > 0)
Fl(p, q) ==
    IF p = 0 THEN [n |-> 0, d |-> 1]
    ELSE RoundToBit(p, q, MantissaBits - 1 - Exponent(p, q))

\* Math.floor of a non-negative double
Floor(f) == f.n \div f.d

\* the double nearest to the integer x; NaN stays NaN
FlInt(x) == IF ~IsNum(x) THEN NaN
            ELSE (IF x < 0 THEN -1 ELSE 1) * Floor(Fl(Abs(x), 1))

\* Math.floor(p / q) as computed on doubles: the quotient is rounded, then floored
FloorFlDiv(p, q) == Floor(Fl(p, q))

--------------------------------------------------------------------------
(* Arrays: digits[i] of the source is At(digits, i), index from 0 *)

At(s, i) == IF i >= 0 /\ i < Len(s) THEN s[i + 1] ELSE Undefined

\* s[i] = v, growing the array with holes when i is past its end
SetAt(s, i, v) ==
    IF i < Len(s) THEN [s EXCEPT ![i + 1] = v]
    ELSE s \o [k \in 1..(i - Len(s)) |-> Undefined] \o <<v>>

--------------------------------------------------------------------------
(* BigInteger objects *)

BigInt(digits, negative) == [digits |-> digits, negative |-> negative, ref |-> "new"]

\* BigInteger.ZERO as it is in a state whose ZERO.negative is zn
ZERO(zn) == [digits |-> <<>>, negative |-> zn, ref |-> "ZERO"]

RECURSIVE NumberDigits(_)
NumberDigits(n) == IF n > 0 THEN <<n % BASE>> \o NumberDigits(n \div BASE) ELSE <<>>

\* new BigInteger(n) for a native integer n
BigIntegerFromNumber(n) == BigInt(NumberDigits(Abs(n)), n < 0)

ONE == BigIntegerFromNumber(1)

TWO == BigIntegerFromNumber(2)

THREE == BigIntegerFromNumber(3)

MAX_NATIVE == BigIntegerFromNumber(MAX_NATIVE_NUMBER)

RECURSIVE stripLeadingZeroDigits(_)
stripLeadingZeroDigits(d) ==
    IF Len(d) > 0 /\ d[Len(d)] = 0
    THEN stripLeadingZeroDigits(SubSeq(d, 1, Len(d) - 1))
    ELSE d

abs(x) == BigInt(x.digits, FALSE)

negate(x) == BigInt(x.digits, ~x.negative)

isZero(x) == Len(x.digits) = 0

isEven(x) == IF isZero(x) THEN TRUE ELSE JsMod(x.digits[1], 2) = 0

\* the digit loops of compare: i runs from the most significant digit down,
\* and `less` is the answer when this has the smaller digit
RECURSIVE compareDigits(_, _, _, _)
compareDigits(x, y, i, less) ==
    IF i < 0 THEN 0
    ELSE IF JsLt(At(x, i), At(y, i)) THEN less
    ELSE IF JsGt(At(x, i), At(y, i)) THEN 0 - less
    ELSE compareDigits(x, y, i - 1, less)

\* a comparison that looks at the lengths only
compareLengths(x, y, less) ==
    IF Len(x.digits) > Len(y.digits) THEN 0 - less
    ELSE IF Len(x.digits) < Len(y.digits) THEN less
    ELSE 0

\* both operands have the sign that makes `less` the answer for a smaller magnitude
compareMagnitudes(x, y, less) ==
    IF Len(x.digits) > Len(y.digits) THEN 0 - less
    ELSE IF Len(x.digits) < Len(y.digits) THEN less
    ELSE compareDigits(x.digits, y.digits, Len(x.digits) - 1, less)

compare(x, y) ==
    IF isZero(x) /\ isZero(y) THEN 0
    ELSE IF x.negative /\ ~y.negative THEN -1
    ELSE IF ~x.negative /\ y.negative THEN 1
    ELSE compareMagnitudes(x, y, IF x.negative THEN 1 ELSE -1)

--------------------------------------------------------------------------
(* Additive engine *)

RECURSIVE longAdditionLoop(_, _, _, _, _)
longAdditionLoop(f, s, i, carry, newDigits) ==
    IF i >= Max(Len(f), Len(s))
    THEN IF carry # 0 THEN newDigits \o <<carry>> ELSE newDigits
    ELSE LET result == IF i >= Len(f) THEN JsAdd(At(s, i), carry)
                       ELSE IF i >= Len(s) THEN JsAdd(At(f, i), carry)
                       ELSE JsAdd(JsAdd(At(f, i), At(s, i)), carry)
         IN  Strict(<<carry, newDigits>>,
                    longAdditionLoop(f, s, i + 1, JsFloorDiv(result, BASE),
                                     newDigits \o <<JsMod(result, BASE)>>))

longAddition(first, second) ==
    BigInt(longAdditionLoop(first.digits, second.digits, 0, 0, <<>>), FALSE)

complementDigits(d) == [i \in 1..Len(d) |-> JsSub(BASE - 1, d[i])]

\* result.digits[k]-- followed by stripLeadingZeroDigits(result)
decrementDigit(result, k) ==
    BigInt(stripLeadingZeroDigits(
               SetAt(result.digits, k, JsSub(ToNumber(At(result.digits, k)), 1))),
           result.negative)

RECURSIVE add(_, _)
RECURSIVE subtract(_, _)

subtractionByComplement(minuend, subtrahend) ==
    decrementDigit(add(add(minuend, BigInt(complementDigits(subtrahend.digits), FALSE)),
                       ONE),
                   Len(subtrahend.digits))

\* the four same-sign branches of subtract: thisFirst tells whether this is
\* the minuend handed to subtractionByComplement
difference(x, y, thisFirst) ==
    BigInt(subtractionByComplement(abs(IF thisFirst THEN x ELSE y),
                                   abs(IF thisFirst THEN y ELSE x)).digits,
           x.negative = thisFirst)

add(x, y) ==
    IF isZero(y) THEN x
    ELSE IF x.negative = y.negative
         THEN BigInt(longAddition(x, y).digits, x.negative)
    ELSE subtract(IF x.negative THEN y ELSE x, abs(IF x.negative THEN x ELSE y))

subtract(x, y) ==
    IF isZero(y) THEN x
    ELSE IF x.negative # y.negative THEN add(x, negate(y))
    ELSE difference(x, y, (compare(x, y) < 0) = x.negative)

--------------------------------------------------------------------------
(* Multiplicative engine *)

RECURSIVE multiplyOneDigitLoop(_, _, _, _, _)
RECURSIVE multiplyOneDigitStore(_, _, _, _, _)

\* the body of the digit loop once result = digit * number.digits[i] + carry
\* has been computed
multiplyOneDigitStore(d, digit, i, result, newDigits) ==
    Strict(<<result, newDigits>>,
           multiplyOneDigitLoop(d, digit, i + 1, JsFloorDiv(result, BASE),
                                newDigits \o <<JsMod(result, BASE)>>))

multiplyOneDigitLoop(d, digit, i, carry, newDigits) ==
    IF i >= Len(d)
    THEN IF carry # 0 THEN newDigits \o <<carry>> ELSE newDigits
    ELSE multiplyOneDigitStore(d, digit, i,
                               FlInt(JsAdd(FlInt(JsMul(digit, At(d, i))), carry)),
                               newDigits)

\* the result is built by new BigInteger(newDigits): its `negative` is undefined
multiplyOneDigit(number, digit, magnitude) ==
    BigInt(multiplyOneDigitLoop(number.digits, digit, 0, 0,
                                [k \in 1..magnitude |-> 0]), FALSE)

RECURSIVE multiplyLoop(_, _, _, _)
multiplyLoop(x, y, i, result) ==
    IF i >= Len(y.digits) THEN result
    ELSE Strict(result,
                multiplyLoop(x, y, i + 1,
                             add(result, multiplyOneDigit(x, At(y.digits, i), i))))

\* the result of the loop as it is, with no sign written
unsigned(result, sign, zn) == [val |-> result, zn |-> zn]

\* result.negative = this.negative ^ other.negative: the assignment writes
\* to ZERO when the loop has handed that object back
signed(result, sign, zn) ==
    [val |-> [result EXCEPT !.negative = sign],
     zn  |-> IF result.ref = "ZERO" THEN sign ELSE zn]

\* this.multiply(other) in a state whose ZERO.negative is zn: the value
\* returned and the ZERO.negative it leaves
multiply(x, y, zn) ==
    signed(multiplyLoop(x, y, 0, ZERO(zn)), x.negative # y.negative, zn)

--------------------------------------------------------------------------
(* Division and modulo engine *)

Value(v) == [kind |-> "value", val |-> v]

NoOutcome == [kind |-> "none"]

Thrown(what) == [kind |-> "throw", what |-> what]

\* the call does not return: the constructor loop on Infinity never ends
Diverges == [kind |-> "diverges"]

RECURSIVE toNumberLoop(_, _, _, _)
toNumberLoop(d, i, value, multiplier) ==
    IF i >= Len(d) THEN value
    ELSE toNumberLoop(d, i + 1, FlInt(JsAdd(value, FlInt(JsMul(At(d, i), multiplier)))),
                      FlInt(multiplier * BASE))

\* the magnitude alone, as if the sign factor were always 1
withoutSign(negative, value) == value

\* (this.negative ? -1 : 1) * value
withSign(negative, value) == IF negative /\ IsNum(value) THEN 0 - value ELSE value

\* toNumber of a value that passed the MAX_NATIVE test, sign included
toNumber(x) == withSign(x.negative, toNumberLoop(x.digits, 0, 0, 1))

toNumberThrows(x) == compare(abs(x), MAX_NATIVE) > 0

RECURSIVE divideByNativeNumberLoop(_, _, _, _, _)
RECURSIVE divideByNativeNumberStore(_, _, _, _, _)

\* the body of the loop once result = BASE * carry + digits[i] has been computed
divideByNativeNumberStore(d, number, i, result, quotient) ==
    divideByNativeNumberLoop(d, number, i - 1, result % number,
                             [quotient EXCEPT ![i + 1] = FloorFlDiv(result, number)])

divideByNativeNumberLoop(d, number, i, carry, quotient) ==
    IF i < 0 THEN quotient
    ELSE divideByNativeNumberStore(d, number, i,
                                   FlInt(JsAdd(FlInt(BASE * carry), At(d, i))), quotient)

\* number is a non-zero native integer; the zero test is made by the callers below
divideByNativeNumber(bigIntegerDividend, number) ==
    BigInt(stripLeadingZeroDigits(
               divideByNativeNumberLoop(bigIntegerDividend.digits, Abs(number),
                   Len(bigIntegerDividend.digits) - 1, 0,
                   [k \in 1..Len(bigIntegerDividend.digits) |-> Undefined])),
           bigIntegerDividend.negative # (number < 0))

firstTwoDigits(number) ==
    LET size == Len(number.digits)
    IN  IF size = 0 THEN 0
        ELSE IF size > 1
             THEN JsAdd(JsMul(At(number.digits, size - 1), BASE),
                        At(number.digits, size - 2))
             ELSE At(number.digits, size - 1)

\* Math.floor(u / v) for two doubles u and v
floorOfQuotient(u, v) == FloorFlDiv(u.n * v.d, v.n * u.d)

\* firstTwoDividendDigits += t for a double t: the sum is rounded
plusDouble(first, t) == Fl(first * t.d + t.n, t.d)

\* the trial digit from the first two dividend digits `first` and, when three
\* digits are used, the third one: firstTwoDivisorDigits / BASE, third / BASE
\* and the sum are each rounded as doubles before the quotient is rounded
\* and floored
trialQuotient(first, third, firstTwoDivisorDigits, threeDigits) ==
    IF ~IsNum(first) \/ first < 0 \/ firstTwoDivisorDigits <= 0 THEN NaN
    ELSE IF threeDigits
         THEN IF ~IsNum(third) \/ third < 0 THEN NaN
              ELSE floorOfQuotient(plusDouble(first, Fl(third, BASE)),
                                   Fl(firstTwoDivisorDigits, BASE))
         ELSE FloorFlDiv(first, firstTwoDivisorDigits)

trialDigit(dividend, firstTwoDivisorDigits, useThreeDigits) ==
    trialQuotient(firstTwoDigits(dividend),
                  At(dividend.digits, Len(dividend.digits) - 3),
                  firstTwoDivisorDigits,
                  useThreeDigits /\ Len(dividend.digits) > 2)

\* the iterations a long division is followed for
MaxIterations == 12

\* the state of the long-division loop after an iteration that subtracted:
\* the new dividend `rest`, and the position and flag computed from it
afterSubtract(rest, divisor, firstTwoDivisorDigits) ==
    LET pos  == Len(rest.digits) - Len(divisor.digits)
        less == pos >= 0 /\ JsGt(firstTwoDivisorDigits, firstTwoDigits(rest))
    IN  [dividend |-> rest, pos |-> IF less THEN pos - 1 ELSE pos, useThreeDigits |-> less]

\* the trial digit kept as it is, whatever the product: a long division
\* without its correction step
uncorrected(qt, product, dividend) == qt

\* the trial digit after the test of product against the dividend
corrected(qt, product, dividend) ==
    IF compare(product, dividend) > 0 THEN JsSub(qt, 1) ELSE qt

RECURSIVE divideLoop(_, _, _, _, _, _, _)
RECURSIVE divideDigit(_, _, _, _, _, _, _)
RECURSIVE divideNext(_, _, _, _, _, _, _)

\* the end of an iteration of divide that has subtracted the product
divideNext(next, divisor, firstTwoDivisorDigits, pos, qt, quotient, n) ==
    divideLoop(next.dividend, divisor, firstTwoDivisorDigits, next.pos,
               next.useThreeDigits, SetAt(quotient, pos, qt), n)

\* an iteration of divide from the corrected trial digit qt on
divideDigit(dividend, divisor, firstTwoDivisorDigits, pos, qt, quotient, n) ==
    IF qt = 0
    THEN divideLoop(dividend, divisor, firstTwoDivisorDigits, pos - 1, TRUE, quotient, n)
    ELSE divideNext(afterSubtract(subtract(dividend, multiplyOneDigit(divisor, qt, pos)),
                                  divisor, firstTwoDivisorDigits),
                    divisor, firstTwoDivisorDigits, pos, qt, quotient, n)

\* the correction of the trial digit qt
divideTrial(dividend, divisor, firstTwoDivisorDigits, pos, qt, quotient, n) ==
    divideDigit(dividend, divisor, firstTwoDivisorDigits, pos,
                corrected(qt, multiplyOneDigit(divisor, qt, pos), dividend),
                quotient, n)

\* the while loop of divide; the result is the quotient array, or NaN when
\* the loop is still running after MaxIterations iterations
divideLoop(dividend, divisor, firstTwoDivisorDigits, pos, useThreeDigits, quotient, n) ==
    IF pos < 0 THEN quotient
    ELSE IF n = 0 THEN <<NaN>>
    ELSE divideTrial(dividend, divisor, firstTwoDivisorDigits, pos,
                     trialDigit(dividend, firstTwoDivisorDigits, useThreeDigits),
                     quotient, n - 1)

\* new BigInteger(quotient, sign) unless the loop has not ended
quotientOutcome(quotient, negative) ==
    IF quotient = <<NaN>> THEN Diverges ELSE Value(BigInt(quotient, negative))

\* the state of the loop at its entry
loopEntry(dividend, divisor) ==
    LET pos  == Len(dividend.digits) - Len(divisor.digits)
        less == JsGt(firstTwoDigits(divisor), firstTwoDigits(dividend))
    IN  [pos |-> IF less THEN pos - 1 ELSE pos, useThreeDigits |-> less]

\* the general long division of divide
divideLong(dividend, divisor, entry, negative) ==
    quotientOutcome(divideLoop(dividend, divisor, firstTwoDigits(divisor), entry.pos,
                               entry.useThreeDigits,
                               [k \in 1..(entry.pos + 1) |-> Undefined], MaxIterations),
                    negative)

\* new BigInteger(negativeMultiplier * magnitude): a NaN leaves no digit and
\* the constructor does not return on Infinity
divideNative(x, y) ==
    IF isZero(y)
    THEN IF isZero(x) THEN Value(BigInt(<<>>, FALSE)) ELSE Diverges
    ELSE Value(BigIntegerFromNumber(
             (IF x.negative # y.negative THEN -1 ELSE 1)
                 * FloorFlDiv(Abs(toNumber(x)), Abs(toNumber(y)))))

\* the outcome of this.divide(other) in a state whose ZERO.negative is zn
divide(x, y, zn) ==
    IF compare(abs(x), abs(y)) < 0 THEN Value(ZERO(zn))
    ELSE IF compare(abs(x), MAX_NATIVE) < 0 THEN divideNative(x, y)
    ELSE IF compare(abs(y), MAX_NATIVE) < 0
         THEN IF isZero(y) THEN Thrown("Division by zero.")
              ELSE Value(divideByNativeNumber(x, toNumber(y)))
    ELSE divideLong(abs(x), abs(y), loopEntry(abs(x), abs(y)), x.negative # y.negative)

RECURSIVE moduloByDigitLoop(_, _, _, _)
moduloByDigitLoop(d, mod, i, carry) ==
    IF i < 0 THEN carry
    ELSE moduloByDigitLoop(d, mod, i - 1, JsMod(JsAdd(carry * BASE, At(d, i)), mod))

RECURSIVE moduloLoop(_, _, _, _, _, _)
RECURSIVE moduloDigit(_, _, _, _, _, _)
RECURSIVE moduloNext(_, _, _, _)

\* the end of an iteration of modulo that has subtracted the product
moduloNext(next, divisor, firstTwoDivisorDigits, n) ==
    moduloLoop(next.dividend, divisor, firstTwoDivisorDigits, next.pos,
               next.useThreeDigits, n)

\* an iteration of modulo from the corrected trial digit qt on
moduloDigit(dividend, divisor, firstTwoDivisorDigits, pos, qt, n) ==
    IF qt = 0
    THEN moduloLoop(dividend, divisor, firstTwoDivisorDigits, pos - 1, TRUE, n)
    ELSE moduloNext(afterSubtract(subtract(dividend, multiplyOneDigit(divisor, qt, pos)),
                                  divisor, firstTwoDivisorDigits),
                    divisor, firstTwoDivisorDigits, n)

\* the correction of the trial digit qt
moduloTrial(dividend, divisor, firstTwoDivisorDigits, pos, qt, n) ==
    moduloDigit(dividend, divisor, firstTwoDivisorDigits, pos,
                corrected(qt, multiplyOneDigit(divisor, qt, pos), dividend), n)

\* the while loop of modulo; the result is the final dividend, or a NaN digit
\* when the loop is still running after MaxIterations iterations
moduloLoop(dividend, divisor, firstTwoDivisorDigits, pos, useThreeDigits, n) ==
    IF pos < 0 THEN dividend
    ELSE IF n = 0 THEN BigInt(<<NaN>>, FALSE)
    ELSE moduloTrial(dividend, divisor, firstTwoDivisorDigits, pos,
                     trialDigit(dividend, firstTwoDivisorDigits, useThreeDigits), n - 1)

\* the final dividend unless the loop has not ended
remainderOutcome(rest) ==
    IF rest.digits = <<NaN>> THEN Diverges ELSE Value(rest)

\* the general long division of modulo
moduloLong(dividend, divisor, entry) ==
    remainderOutcome(moduloLoop(dividend, divisor, firstTwoDigits(divisor), entry.pos,
                                entry.useThreeDigits, MaxIterations))

\* the outcome of this.modulo(other)
modulo(x, y) ==
    IF isZero(y) THEN Thrown("Modulus cannot be zero.")
    ELSE IF compare(abs(x), abs(y)) < 0 THEN Value(abs(x))
    ELSE IF compare(abs(x), MAX_NATIVE) < 0
         THEN Value(BigIntegerFromNumber(Abs(toNumber(x)) % Abs(toNumber(y))))
    ELSE IF compare(abs(y), BigIntegerFromNumber(BASE)) < 0
         THEN Value(BigIntegerFromNumber(
                  moduloByDigitLoop(x.digits, Abs(toNumber(y)), Len(x.digits) - 1, 0)))
    ELSE moduloLong(abs(x), abs(y), loopEntry(abs(x), abs(y)))

--------------------------------------------------------------------------
(* Random numbers, modPow and the primality test *)

\* the values Math.floor(Math.random() * numLim) can take: Math.random() is
\* any number of [0, 1)
randomNumber(numLim) ==
    IF ~IsNum(numLim) THEN {NaN}
    ELSE IF numLim > 0 THEN 0..(numLim - 1)
    ELSE numLim..0

\* the BigIntegers BigInteger.random(limit) can return
random(limit) ==
    IF Len(limit.digits) = 0 THEN {BigInt(<<>>, FALSE)}
    ELSE {BigInt(stripLeadingZeroDigits(low \o <<top>>), FALSE) :
              low \in [1..(Len(limit.digits) - 1) -> randomNumber(BASE)],
              top \in randomNumber(limit.digits[Len(limit.digits)])}

\* the iterations the loops of modPow and isPrime are followed for
MaxLoopIterations == 24

\* the outcome of a call together with the ZERO.negative it leaves
Step(outcome, zn) == [out |-> outcome, zn |-> zn]

RECURSIVE modPowLoop(_, _, _, _, _, _)
RECURSIVE modPowHalved(_, _, _, _, _, _)
RECURSIVE modPowReduced(_, _, _, _, _, _, _)
RECURSIVE modPowMultiplied(_, _, _, _, _, _)

\* the even branch once exponent.divide(TWO) is known
modPowHalved(result, base, half, modulus, zn, n) ==
    IF half.kind # "value" THEN Step(half, zn)
    ELSE modPowLoop(result, base, half.val, modulus, zn, n)

\* an iteration once the product has been reduced modulo modulus: the even
\* branch assigns it to base, the odd one to result
modPowReduced(result, base, exponent, modulus, reduced, zn, n) ==
    IF reduced.kind # "value" THEN Step(reduced, zn)
    ELSE IF isEven(exponent)
         THEN modPowHalved(result, reduced.val, divide(exponent, TWO, zn), modulus, zn, n)
    ELSE modPowLoop(reduced.val, base, subtract(exponent, ONE), modulus, zn, n)

\* an iteration that keeps the product as it is, with no reduction
modPowUnreduced(result, base, exponent, modulus, product, n) ==
    modPowReduced(result, base, exponent, modulus, Value(product.val),
                  product.zn, n)

\* an iteration once base.multiply(base) or result.multiply(base) is known
modPowMultiplied(result, base, exponent, modulus, product, n) ==
    modPowReduced(result, base, exponent, modulus, modulo(product.val, modulus),
                  product.zn, n)

\* the while loop of modPow
modPowLoop(result, base, exponent, modulus, zn, n) ==
    IF compare(exponent, ZERO(zn)) <= 0 THEN Step(Value(result), zn)
    ELSE IF n = 0 THEN Step(Diverges, zn)
    ELSE modPowMultiplied(result, base, exponent, modulus,
                          multiply(IF isEven(exponent) THEN base ELSE result, base, zn),
                          n - 1)

\* the outcome of base.modPow(exponent, modulus) in a state whose
\* ZERO.negative is zn
modPow(base, exponent, modulus, zn) ==
    IF exponent.negative THEN Step(Thrown("Negative exponent."), zn)
    ELSE modPowLoop(ONE, base, exponent, modulus, zn, MaxLoopIterations)

\* `object === 0`: strict equality of an object and a number is false
ObjectStrictEqualsNumber(outcome, number) == FALSE

\* the early returns of isPrime: "false", "true", or "test" when the witness
\* loops decide
preFilter(this) ==
    IF compare(this, ONE) <= 0 THEN "false"
    ELSE IF compare(this, THREE) <= 0 THEN "true"
    ELSE IF \/ isEven(this)
            \/ ObjectStrictEqualsNumber(modulo(this, THREE), 0)
            \/ JsMod(At(this.digits, 0), 5) = 0
         THEN "false"
    ELSE "test"

RECURSIVE factorOutTwo(_, _, _, _)
RECURSIVE factorOutTwoHalved(_, _, _, _)

factorOutTwoHalved(half, count, zn, n) ==
    IF half.kind # "value" THEN half
    ELSE factorOutTwo(half.val, count + 1, zn, n)

\* the loop that factors the power of two out of n - 1: d and count
factorOutTwo(d, count, zn, n) ==
    IF ~isEven(d) THEN [kind |-> "value", d |-> d, count |-> count]
    ELSE IF n = 0 THEN Diverges
    ELSE factorOutTwoHalved(divide(d, TWO, zn), count, zn, n - 1)

RECURSIVE squaringLoop(_, _, _, _, _, _)
RECURSIVE squaringReduced(_, _, _, _, _, _)
RECURSIVE squaringMultiplied(_, _, _, _, _)

\* an iteration of the inner loop once x.multiply(x).modulo(this) is known
squaringReduced(this, nSub1, x, j, count, zn) ==
    IF x.kind # "value" THEN Step(x, zn)
    ELSE IF compare(x.val, ONE) = 0 THEN Step(Value(FALSE), zn)
    ELSE IF compare(x.val, nSub1) = 0 THEN Step(Value(TRUE), zn)
    ELSE squaringLoop(this, nSub1, x.val, j + 1, count, zn)

squaringMultiplied(this, nSub1, square, j, count) ==
    squaringReduced(this, nSub1, modulo(square.val, this), j, count, square.zn)

\* the inner for loop of a witness round and the test that follows it:
\* Value(TRUE) when the round passes, Value(FALSE) when isPrime returns false
squaringLoop(this, nSub1, x, j, count, zn) ==
    IF j >= count - 1 THEN Step(Value(compare(x, nSub1) = 0), zn)
    ELSE squaringMultiplied(this, nSub1, multiply(x, x, zn), j, count)

\* a witness round from x = a.modPow(d, this) on
witnessSquarings(this, nSub1, x, count) ==
    IF x.out.kind # "value" THEN x
    ELSE IF compare(x.out.val, ONE) = 0 \/ compare(x.out.val, nSub1) = 0
         THEN Step(Value(TRUE), x.zn)
    ELSE squaringLoop(this, nSub1, x.out.val, 0, count, x.zn)

\* a witness round once d and count are known
witnessPower(this, nSub1, factored, rand, zn) ==
    IF factored.kind # "value" THEN Step(factored, zn)
    ELSE witnessSquarings(this, nSub1, modPow(add(rand, TWO), factored.d, this, zn),
                          factored.count)

\* a witness round once nSub1 is known
witnessFactor(this, nSub1, rand, zn) ==
    witnessPower(this, nSub1, factorOutTwo(nSub1, 0, zn, MaxLoopIterations), rand, zn)

\* one iteration of the witness loop of this.isPrime with the random number
\* rand drawn by BigInteger.random
witnessRound(this, rand, zn) == witnessFactor(this, subtract(this, ONE), rand, zn)

\* a.divide(b).multiply(b).add(a.modulo(b)) from the product on
plusRemainder(product, remainder) ==
    Step(IF remainder.kind # "value" THEN remainder
         ELSE Value(add(product.val, remainder.val)),
         product.zn)

\* a.divide(b).multiply(b).add(a.modulo(b)) from the quotient on
timesDivisor(quotient, x, y, zn) ==
    IF quotient.kind # "value" THEN Step(quotient, zn)
    ELSE plusRemainder(multiply(quotient.val, y, zn), modulo(x, y))

\* the receiver chain is evaluated before the argument of add
divideMultiplyAdd(x, y, zn) == timesDivisor(divide(x, y, zn), x, y, zn)

--------------------------------------------------------------------------
(* Strings: a string is the sequence of its characters.  The string       *)
(* branch of the constructor cuts the string in chunks of logbase          *)
(* characters, one chunk per digit: with BASE = 10 a chunk is one          *)
(* character.                                                              *)

\* the base 10 logarithm of BASE
logbase == 1

\* numberString === null
Null == <<"null">>

DecimalDigits == <<"0", "1", "2", "3", "4", "5", "6", "7", "8", "9">>

UpperCase == <<"A", "B", "C", "D", "E", "F", "G", "H", "I", "J", "K", "L", "M",
               "N", "O", "P", "Q", "R", "S", "T", "U", "V", "W", "X", "Y", "Z">>

LowerCase == <<"a", "b", "c", "d", "e", "f", "g", "h", "i", "j", "k", "l", "m",
               "n", "o", "p", "q", "r", "s", "t", "u", "v", "w", "x", "y", "z">>

\* s.indexOf(ch) for a character ch
indexOf(s, ch) ==
    IF \E i \in 1..Len(s) : s[i] = ch
    THEN (CHOOSE i \in 1..Len(s) : s[i] = ch) - 1
    ELSE -1

\* s.charAt(i): the empty string outside of s, and position 0 for NaN
charAt(s, i) ==
    IF ~IsNum(i) THEN <<s[1]>>
    ELSE IF i >= 0 /\ i < Len(s) THEN <<s[i + 1]>>
    ELSE <<>>

toUpperCase(ch) ==
    IF indexOf(LowerCase, ch) >= 0 THEN UpperCase[indexOf(LowerCase, ch) + 1] ELSE ch

RECURSIVE parseDigits(_, _, _)
\* the value of the decimal digits of s from position i up to the first
\* character that is no decimal digit
parseDigits(s, i, value) ==
    IF i > Len(s) \/ indexOf(DecimalDigits, s[i]) < 0 THEN value
    ELSE parseDigits(s, i + 1, 10 * value + indexOf(DecimalDigits, s[i]))

\* parseInt(s) of a string without white space and shorter than a radix
\* prefix: an optional sign, then the leading decimal digits, NaN without one
parseInt(s) ==
    IF Len(s) = 0 THEN NaN
    ELSE IF s[1] = "-"
         THEN IF Len(s) < 2 \/ indexOf(DecimalDigits, s[2]) < 0 THEN NaN
              ELSE 0 - parseDigits(s, 2, 0)
    ELSE IF indexOf(DecimalDigits, s[1]) < 0 THEN NaN
    ELSE parseDigits(s, 1, 0)

RECURSIVE decimal(_)
\* the decimal digits of the integer n >= 0
decimal(n) ==
    IF n < 10 THEN <<DecimalDigits[n + 1]>>
    ELSE decimal(n \div 10) \o <<DecimalDigits[(n % 10) + 1]>>

\* number.toString() for an integer or NaN
NumberToString(n) ==
    IF ~IsNum(n) THEN <<"N", "a", "N">>
    ELSE IF n < 0 THEN <<"-">> \o decimal(0 - n)
    ELSE decimal(n)

\* the string a value becomes when it is concatenated to a string
Concatenated(v) ==
    IF v = Undefined THEN <<"u", "n", "d", "e", "f", "i", "n", "e", "d">>
    ELSE NumberToString(v)

representsZero(str) == \A i \in 1..Len(str) : str[i] = "0"

\* the digits the string branch parses out of `number`, the string after its sign
stringDigits(number, numDigits, excess) ==
    [k \in 1..numDigits |->
        IF k = numDigits THEN parseInt(SubSeq(number, 1, excess))
        ELSE parseInt(SubSeq(number, Len(number) - logbase * k + 1,
                             Len(number) - logbase * (k - 1)))]

\* the string branch once the sign has been taken off
parsed(number, negative) ==
    IF representsZero(number) THEN BigInt(<<>>, FALSE)
    ELSE BigInt(stringDigits(number, (Len(number) + logbase - 1) \div logbase,
                             IF Len(number) % logbase = 0 THEN logbase
                             ELSE Len(number) % logbase),
                negative)

\* new BigInteger(number) for a string
BigIntegerFromString(number) ==
    IF Len(number) > 0 /\ number[1] = "-" THEN parsed(Tail(number), TRUE)
    ELSE parsed(number, FALSE)

\* the object x denotes in a state whose ZERO.negative is zn
current(x, zn) == IF x.ref = "ZERO" THEN ZERO(zn) ELSE x

RECURSIVE decimalTail(_, _, _)
\* the for loop of the decimal branch of toString
decimalTail(d, i, numberString) ==
    IF i >= Len(d) - 1 THEN numberString
    ELSE decimalTail(d, i + 1,
                     Tail(NumberToString(JsAdd(At(d, i), BASE))) \o numberString)

\* the decimal string built from the digits
toStringDecimal(x) ==
    (IF x.negative THEN <<"-">> ELSE <<>>)
        \o Concatenated(At(x.digits, Len(x.digits) - 1))
        \o decimalTail(x.digits, 0, <<>>)

\* the character of a digit in a base up to 36
newDigit(digit) ==
    IF JsLt(digit, 10) THEN NumberToString(digit)
    ELSE charAt(UpperCase, JsSub(digit, 10))

\* the digits a toString in another base than ten is followed for
MaxStringDigits == 12

RECURSIVE toStringLoop(_, _, _, _, _)
RECURSIVE toStringDigit(_, _, _, _, _, _)
RECURSIVE toStringDivided(_, _, _, _, _)

\* an iteration once currentValue.divide(bigBase) is known
toStringDivided(bigBase, str, zn, n, quotient) ==
    IF quotient.kind # "value" THEN quotient
    ELSE toStringLoop(current(quotient.val, zn), bigBase, str, zn, n)

\* an iteration once currentValue.modulo(bigBase) is known
toStringDigit(currentValue, bigBase, str, zn, n, remainder) ==
    IF remainder.kind # "value" THEN remainder
    ELSE IF toNumberThrows(remainder.val)
         THEN Thrown("Value is to large to be represented by a Number.")
    ELSE toStringDivided(bigBase, newDigit(toNumber(remainder.val)) \o str, zn, n,
                         divide(currentValue, bigBase, zn))

\* the while loop of toString
toStringLoop(currentValue, bigBase, str, zn, n) ==
    IF isZero(currentValue) THEN Value(str)
    ELSE IF n = 0 THEN Diverges
    ELSE toStringDigit(currentValue, bigBase, str, zn, n - 1,
                       modulo(currentValue, bigBase))

\* the outcome of x.toString(base) for an x whose numberString field is
\* numberString, in a state whose ZERO.negative is zn
toString(x, numberString, base, zn) ==
    IF JsLt(base, 2) \/ JsGt(base, 36)
    THEN Thrown("Base not in acceptable range of [2, 36]")
    ELSE IF isZero(x) THEN Value(<<"0">>)
    ELSE IF base = Undefined \/ base = 10
         THEN Value(IF numberString # Null THEN numberString ELSE toStringDecimal(x))
    ELSE toStringLoop(x, BigIntegerFromNumber(base), <<>>, zn, MaxStringDigits)

\* the number valueOf reads a character as
digitValue(ch) ==
    IF indexOf(DecimalDigits, ch) >= 0 THEN parseInt(<<ch>>)
    ELSE indexOf(UpperCase, toUpperCase(ch)) + 10

RECURSIVE valueOfLoop(_, _, _, _, _, _)
RECURSIVE valueOfNext(_, _, _, _, _)
RECURSIVE valueOfAdded(_, _, _, _, _, _)
RECURSIVE valueOfDigit(_, _, _, _, _, _, _)

\* the end of an iteration: `next` is multiplier.multiply(bigBase)
valueOfNext(str, i, result, bigBase, next) ==
    Strict(<<result, next>>,
           valueOfLoop(str, i + 1, result, next.val, bigBase, next.zn))

\* an iteration whose digit is not zero, once bigDigit.multiply(multiplier)
\* is known
valueOfAdded(str, i, result, multiplier, bigBase, product) ==
    valueOfNext(str, i, add(current(result, product.zn), product.val), bigBase,
                multiply(multiplier, bigBase, product.zn))

\* an iteration once the digit has been read
valueOfDigit(str, i, result, multiplier, bigBase, zn, bigDigit) ==
    IF isZero(bigDigit)
    THEN valueOfNext(str, i, result, bigBase, multiply(multiplier, bigBase, zn))
    ELSE valueOfAdded(str, i, result, multiplier, bigBase,
                      multiply(bigDigit, multiplier, zn))

\* the for loop of valueOf; `result` is an object, BigInteger.ZERO at first
valueOfLoop(str, i, result, multiplier, bigBase, zn) ==
    IF i >= Len(str) THEN Step(Value(current(result, zn)), zn)
    ELSE valueOfDigit(str, i, result, multiplier, bigBase, zn,
                      BigIntegerFromNumber(digitValue(str[Len(str) - i])))

\* valueOf once the sign has been read: result.negative = ... writes to
\* BigInteger.ZERO
valueOfSigned(str, base, negative) ==
    valueOfLoop(str, 0, ZERO(negative), ONE, BigIntegerFromNumber(base), negative)

\* the outcome of BigInteger.valueOf(str, base) in a state whose
\* ZERO.negative is zn, and the ZERO.negative it leaves
valueOf(str, base, zn) ==
    IF representsZero(str) THEN Step(Value(ZERO(zn)), zn)
    ELSE IF str[1] = "-" THEN valueOfSigned(Tail(str), base, TRUE)
    ELSE valueOfSigned(str, base, FALSE)

\* valueOf of the outcome of a toString
valueOfString(string, base, zn) ==
    IF string.kind # "value" THEN Step(string, zn)
    ELSE valueOf(string.val, base, zn)

\* BigInteger.valueOf(x.toString(base), base)
toStringValueOf(x, numberString, base, zn) ==
    valueOfString(toString(x, numberString, base, zn), base, zn)

--------------------------------------------------------------------------
(* Operands *)

RECURSIVE CanonicalDigits(_)
\* the digit arrays of canonical form with at most n digits
CanonicalDigits(n) ==
    IF n = 0 THEN {<<>>}
    ELSE CanonicalDigits(n - 1) \cup
         {d \o <<m>> : d \in [1..(n - 1) -> 0..(BASE - 1)], m \in 1..(BASE - 1)}

\* the canonical BigIntegers a caller can construct, with at most n digits
Constructed(n) ==
    {BigInt(d, s) : d \in CanonicalDigits(n) \ {<<>>}, s \in BOOLEAN}
        \cup {BigInt(<<>>, FALSE)}

\* the operation takes no second argument
NoArgument == [kind |-> "none"]

\* no witness has been drawn
NoWitness == [digits |-> <<>>, negative |-> FALSE, ref |-> "none"]

\* no isPrime call has been made since the last outcome was dropped
NoFrame == [witnessLoops |-> 0, i |-> 0, a |-> NoWitness]

--------------------------------------------------------------------------
(* The state machine: one action per public operation *)

\* the operands are chosen once; the caller then makes one call after another on them
Operands == Constructed(MaxLen) \cup {ZERO(FALSE)}

\* the object an operand denotes now: BigInteger.ZERO carries its current flag
Deref(v) == IF v.ref = "ZERO" THEN ZERO(ZERO_negative) ELSE v

Init ==
    /\ ZERO_negative = FALSE
    /\ op = "none"
    /\ a \in Operands
    /\ b \in Operands
    /\ c = NoArgument
    /\ out = NoOutcome
    /\ frame = NoFrame

Add ==
    /\ op = "none"
    /\ op' = "add"
    /\ out' = Value(add(Deref(a), Deref(b)))
    /\ UNCHANGED <<a, b, c, ZERO_negative, frame>>

Subtract ==
    /\ op = "none"
    /\ op' = "subtract"
    /\ out' = Value(subtract(Deref(a), Deref(b)))
    /\ UNCHANGED <<a, b, c, ZERO_negative, frame>>

\* the call returns the value of `product` and leaves its ZERO.negative
ReturnProduct(product) ==
    /\ out' = Value(product.val)
    /\ ZERO_negative' = product.zn

Multiply ==
    /\ op = "none"
    /\ op' = "multiply"
    /\ ReturnProduct(multiply(Deref(a), Deref(b), ZERO_negative))
    /\ UNCHANGED <<a, b, c, frame>>

\* a.add(b).subtract(b)
AddSubtract ==
    /\ op = "none"
    /\ op' = "add.subtract"
    /\ out' = Value(subtract(add(Deref(a), Deref(b)), Deref(b)))
    /\ UNCHANGED <<a, b, c, ZERO_negative, frame>>

Divide ==
    /\ op = "none"
    /\ op' = "divide"
    /\ out' = divide(Deref(a), Deref(b), ZERO_negative)
    /\ UNCHANGED <<a, b, c, ZERO_negative, frame>>

Modulo ==
    /\ op = "none"
    /\ op' = "modulo"
    /\ out' = modulo(Deref(a), Deref(b))
    /\ UNCHANGED <<a, b, c, ZERO_negative, frame>>

\* the call ends with the outcome of `step` and leaves its ZERO.negative
Return(step) ==
    /\ out' = step.out
    /\ ZERO_negative' = step.zn

\* a.divide(b).multiply(b).add(a.modulo(b))
DivideMultiplyAdd ==
    /\ op = "none"
    /\ op' = "divide.multiply.add"
    /\ Return(divideMultiplyAdd(Deref(a), Deref(b), ZERO_negative))
    /\ UNCHANGED <<a, b, c, frame>>

\* the valid witnessLoops arguments a caller passes
MaxWitnessLoops == 2

\* isPrime after its early returns: `filtered` is their verdict
Filtered(filtered) ==
    IF filtered = "test"
    THEN op' = "isPrime.loop" /\ out' = NoOutcome
    ELSE op' = "isPrime" /\ out' = Value(filtered = "true")

\* a.isPrime(witnessLoops) up to the first witness loop: the early returns,
\* or the entry of the for loop with i = 0
IsPrime ==
    /\ op = "none"
    /\ \E witnessLoops \in 1..MaxWitnessLoops :
           frame' = [witnessLoops |-> witnessLoops, i |-> 0, a |-> NoWitness]
    /\ Filtered(preFilter(Deref(a)))
    /\ UNCHANGED <<a, b, c, ZERO_negative>>

\* the end of a witness round whose outcome is `round`: isPrime returns
\* false, or goes on to the next round, or leaves the loop and returns true.
\* The witness is a dead local at the head of the loop and is kept only when
\* the call returns.
Witnessed(rand, round) ==
    /\ ZERO_negative' = round.zn
    /\ IF round.out.kind = "value" /\ round.out.val /\ frame.i + 1 < frame.witnessLoops
       THEN /\ op' = op
            /\ out' = out
            /\ frame' = [frame EXCEPT !.i = frame.i + 1]
       ELSE /\ op' = "isPrime"
            /\ out' = round.out
            /\ frame' = [frame EXCEPT !.i = frame.i + 1, !.a = add(rand, TWO)]

\* one iteration of the for loop of isPrime, with the random number it draws
IsPrimeWitness ==
    /\ op = "isPrime.loop"
    /\ \E rand \in random(subtract(Deref(a), THREE)) :
           Witnessed(rand, witnessRound(Deref(a), rand, ZERO_negative))
    /\ UNCHANGED <<a, b, c>>

\* the caller drops the outcome and is ready for its next call
Discard ==
    /\ op \notin {"none", "isPrime.loop", "divide.loop", "modulo.loop"}
    /\ op' = "none"
    /\ out' = NoOutcome
    /\ frame' = NoFrame
    /\ UNCHANGED <<a, b, c, ZERO_negative>>

Next ==
    \/ Add \/ Subtract \/ Multiply \/ AddSubtract
    \/ Divide \/ Modulo \/ DivideMultiplyAdd
    \/ Discard

Spec == Init /\ [][Next]_vars

--------------------------------------------------------------------------
(* Long operands: digit arrays over a few digit values, long enough to     *)
(* reach every path of divide and modulo.                                  *)

\* the digit arrays over `values` of length n with a non-zero last digit
DigitArrays(values, n) ==
    {d \o <<m>> : d \in [1..(n - 1) -> values], m \in values \ {0}}

\* the canonical BigIntegers of at most n digits drawn from `values`
LongOperands(values, n) ==
    {BigInt(d, s) : d \in UNION {DigitArrays(values, k) : k \in 1..n}, s \in BOOLEAN}
        \cup {BigInt(<<>>, FALSE)}

MaxDividendLen == 4

MaxDivisorLen == 3

DivisionDigits == {0, 1, 9}

InitDivision ==
    /\ ZERO_negative = FALSE
    /\ op = "none"
    /\ a \in LongOperands(DivisionDigits, MaxDividendLen)
    /\ b \in LongOperands(DivisionDigits, MaxDivisorLen)
    /\ c = NoArgument
    /\ out = NoOutcome
    /\ frame = NoFrame

NextDivision == Divide \/ DivideMultiplyAdd \/ Discard

SpecDivision == InitDivision /\ [][NextDivision]_vars

--------------------------------------------------------------------------
(* Modulo on long operands *)

MaxModuloDividendLen == 3

MaxModuloDivisorLen == 2

ModuloDigits == {0, 1, 5, 9}

InitModulo ==
    /\ ZERO_negative = FALSE
    /\ op = "none"
    /\ a \in LongOperands(ModuloDigits, MaxModuloDividendLen)
    /\ b \in LongOperands(ModuloDigits, MaxModuloDivisorLen)
    /\ c = NoArgument
    /\ out = NoOutcome
    /\ frame = NoFrame

NextModulo == Modulo \/ Discard

SpecModulo == InitModulo /\ [][NextModulo]_vars

--------------------------------------------------------------------------
(* Primality: the receiver is any integer up to MaxCandidate in magnitude,  *)
(* or one of three larger numbers: the prime 97, whose most significant     *)
(* digit is BASE - 1, 231 = 3 * 7 * 11, the smallest multiple of three      *)
(* above 3 that has strong liars, and the prime 233.                        *)

MaxCandidate == 60

LongCandidates == {97, 231, 233}

InitPrime ==
    /\ ZERO_negative = FALSE
    /\ op = "none"
    /\ a \in {BigIntegerFromNumber(n) :
                  n \in ((0 - MaxCandidate)..MaxCandidate) \cup LongCandidates}
              \cup {ZERO(FALSE)}
    /\ b = ZERO(FALSE)
    /\ c = NoArgument
    /\ out = NoOutcome
    /\ frame = NoFrame

NextPrime == IsPrime \/ IsPrimeWitness \/ Discard

SpecPrime == InitPrime /\ [][NextPrime]_vars

--------------------------------------------------------------------------
(* Reference semantics: the integer a canonical BigInteger denotes *)

RECURSIVE Magnitude(_)
Magnitude(d) == IF Len(d) = 0 THEN 0 ELSE d[1] + BASE * Magnitude(Tail(d))

IntOf(x) == IF x.negative THEN 0 - Magnitude(x.digits) ELSE Magnitude(x.digits)

\* the canonical BigInteger of the integer n
Exact(n) == BigInt(NumberDigits(Abs(n)), n < 0)

IsDigit(v) == IsNum(v) /\ v >= 0 /\ v < BASE

IsCanonical(x) ==
    /\ \A i \in 1..Len(x.digits) : IsDigit(x.digits[i])
    /\ Len(x.digits) > 0 => x.digits[Len(x.digits)] # 0

\* the value an outcome holds, read through the shared object when it is ZERO
Returned == Deref(out.val)

A == Deref(a)

B == Deref(b)

--------------------------------------------------------------------------
(* Conversion to and from strings.  c holds the base and the numberString  *)
(* field of the receiver: the decimal string of the number it was built    *)
(* from, or null when it was built from an array of digits.                *)

ToStringBase ==
    /\ op = "none"
    /\ op' = "toString"
    /\ out' = toString(Deref(a), c.numberString, c.base, ZERO_negative)
    /\ UNCHANGED <<a, b, c, ZERO_negative, frame>>

\* BigInteger.valueOf(a.toString(base), base)
ToStringValueOf ==
    /\ op = "none"
    /\ op' = "toString.valueOf"
    /\ Return(toStringValueOf(Deref(a), c.numberString, c.base, ZERO_negative))
    /\ UNCHANGED <<a, b, c, frame>>

\* the bases of the conversions: the smallest, the largest, ten, and bases
\* below and above ten
Radixes == {2, 3, 7, 10, 16, 36}

MaxRadixLen == 3

RadixOperands ==
    Constructed(MaxLen) \cup LongOperands(DivisionDigits, MaxRadixLen) \cup {ZERO(FALSE)}

InitRadix ==
    /\ ZERO_negative = FALSE
    /\ op = "none"
    /\ a \in RadixOperands
    /\ b = ZERO(FALSE)
    /\ c \in {[base |-> r, numberString |-> s] :
                  r \in Radixes, s \in {Null, NumberToString(IntOf(a))}}
    /\ out = NoOutcome
    /\ frame = NoFrame

NextRadix == ToStringBase \/ ToStringValueOf \/ Discard

SpecRadix == InitRadix /\ [][NextRadix]_vars

--------------------------------------------------------------------------
(* Strings handed to the constructor and to valueOf: c holds the string    *)
(* and the base.                                                           *)

\* new BigInteger(str)
Construct ==
    /\ op = "none"
    /\ op' = "new"
    /\ out' = Value(BigIntegerFromString(c.str))
    /\ UNCHANGED <<a, b, c, ZERO_negative, frame>>

\* BigInteger.valueOf(str, base)
ValueOf ==
    /\ op = "none"
    /\ op' = "valueOf"
    /\ Return(valueOf(c.str, c.base, ZERO_negative))
    /\ UNCHANGED <<a, b, c, frame>>

\* native integers of one, two and three digits, of both signs, and MAX_NATIVE
NativeIntegers == {-100, -11, -10, -1, 0, 1, 9, 10, 99, 100, MAX_NATIVE_NUMBER}

\* new BigInteger(n) for a native integer n
ConstructNumber ==
    /\ op = "none"
    /\ op' = "new.number"
    /\ \E n \in NativeIntegers : out' = Value(BigIntegerFromNumber(n))
    /\ UNCHANGED <<a, b, c, ZERO_negative, frame>>

MaxStringLen == 3

\* a sign, decimal digits, letters of both cases, and a character that is
\* no digit in any base
Characters == {"-", "0", "1", "9", "A", "z", "?"}

Strings == UNION {[1..n -> Characters] : n \in 0..MaxStringLen}

InitParse ==
    /\ ZERO_negative = FALSE
    /\ op = "none"
    /\ a = ZERO(FALSE)
    /\ b = ZERO(FALSE)
    /\ c \in {[str |-> s, base |-> r] : s \in Strings, r \in Radixes}
    /\ out = NoOutcome
    /\ frame = NoFrame

NextParse == Construct \/ ConstructNumber \/ ValueOf \/ Discard

SpecParse == InitParse /\ [][NextParse]_vars

--------------------------------------------------------------------------
(* Sign changes and comparisons *)

equals(x, y) == compare(x, y) = 0

isGreaterThan(x, y) == compare(x, y) > 0

isLessThan(x, y) == compare(x, y) < 0

Negate ==
    /\ op = "none"
    /\ op' = "negate"
    /\ out' = Value(negate(Deref(a)))
    /\ UNCHANGED <<a, b, c, ZERO_negative, frame>>

AbsoluteValue ==
    /\ op = "none"
    /\ op' = "abs"
    /\ out' = Value(abs(Deref(a)))
    /\ UNCHANGED <<a, b, c, ZERO_negative, frame>>

Compare ==
    /\ op = "none"
    /\ op' = "compare"
    /\ out' = Value(compare(Deref(a), Deref(b)))
    /\ UNCHANGED <<a, b, c, ZERO_negative, frame>>

Equals ==
    /\ op = "none"
    /\ op' = "equals"
    /\ out' = Value(equals(Deref(a), Deref(b)))
    /\ UNCHANGED <<a, b, c, ZERO_negative, frame>>

IsGreaterThan ==
    /\ op = "none"
    /\ op' = "isGreaterThan"
    /\ out' = Value(isGreaterThan(Deref(a), Deref(b)))
    /\ UNCHANGED <<a, b, c, ZERO_negative, frame>>

IsLessThan ==
    /\ op = "none"
    /\ op' = "isLessThan"
    /\ out' = Value(isLessThan(Deref(a), Deref(b)))
    /\ UNCHANGED <<a, b, c, ZERO_negative, frame>>

NextOrder ==
    \/ Negate \/ AbsoluteValue
    \/ Compare \/ Equals \/ IsGreaterThan \/ IsLessThan
    \/ Discard

MaxOrderLen == 2

OrderDigits == {0, 1, 5, 9}

\* canonical operands of every sign and length up to MaxOrderLen, and the
\* shared BigInteger.ZERO
OrderOperands == LongOperands(OrderDigits, MaxOrderLen) \cup {ZERO(FALSE)}

InitOrder ==
    /\ ZERO_negative = FALSE
    /\ op = "none"
    /\ a \in OrderOperands
    /\ b \in OrderOperands
    /\ c = NoArgument
    /\ out = NoOutcome
    /\ frame = NoFrame

SpecOrder == InitOrder /\ [][NextOrder]_vars

--------------------------------------------------------------------------
(* The neutral and the absorbing element: any receiver, long ones included, *)
(* with the shared BigInteger.ZERO or BigInteger.ONE as the argument.       *)

MaxIdentityLen == 4

InitIdentity ==
    /\ ZERO_negative = FALSE
    /\ op = "none"
    /\ a \in LongOperands(OrderDigits, MaxIdentityLen) \cup {ZERO(FALSE)}
    /\ b \in {ZERO(FALSE), ONE}
    /\ c = NoArgument
    /\ out = NoOutcome
    /\ frame = NoFrame

NextIdentity == Add \/ Multiply \/ Discard

SpecIdentity == InitIdentity /\ [][NextIdentity]_vars

--------------------------------------------------------------------------
(* Modular exponentiation: a is the base, b the exponent, c the modulus *)

ModPow ==
    /\ op = "none"
    /\ op' = "modPow"
    /\ Return(modPow(Deref(a), Deref(b), Deref(c), ZERO_negative))
    /\ UNCHANGED <<a, b, c, frame>>

MaxModPowBase == 12

MaxModPowExponent == 12

MaxModulus == 12

\* longer bases, exponents on both sides of MAX_NATIVE, moduli of several
\* digits; 1234, 100 and 5675 are the operands of the repository's test
ModPowBases == (0..MaxModPowBase) \cup {25, 99, 1234}

ModPowExponents ==
    (0..MaxModPowExponent) \cup
        {100, MAX_NATIVE_NUMBER - 1, MAX_NATIVE_NUMBER, MAX_NATIVE_NUMBER + 1, 1000}

Moduli == (2..MaxModulus) \cup {25, 99, 100, 5675}

InitModPow ==
    /\ ZERO_negative = FALSE
    /\ op = "none"
    /\ a \in {BigIntegerFromNumber(n) : n \in ModPowBases} \cup {ZERO(FALSE)}
    /\ b \in {BigIntegerFromNumber(n) : n \in ModPowExponents} \cup {ZERO(FALSE)}
    /\ c \in {BigIntegerFromNumber(n) : n \in Moduli}
    /\ out = NoOutcome
    /\ frame = NoFrame

NextModPow == ModPow \/ Discard

SpecModPow == InitModPow /\ [][NextModPow]_vars

--------------------------------------------------------------------------
(* Exponentiation by a native number.  The exponent is a double, held as    *)
(* the fraction n / d whose denominator is a power of two, n = NaN for NaN; *)
(* type is what typeof gives for the argument.                              *)

Native(n, d) == [type |-> "number", n |-> n, d |-> d]

\* an argument of pow that is no number
NotNative == [type |-> "string", n |-> NaN, d |-> 1]

\* exponent === k for an integer k
StrictEquals(exponent, k) == IsNum(exponent.n) /\ exponent.n = k * exponent.d

IsWhole(exponent) == IsNum(exponent.n) /\ exponent.n % exponent.d = 0

\* exponent % 2 === 0
IsEvenNumber(exponent) == IsNum(exponent.n) /\ exponent.n % (2 * exponent.d) = 0

\* the double of sign `negative` and magnitude f
Signed(negative, f) == Native(IF negative THEN 0 - f.n ELSE f.n, f.d)

\* exponent / 2: halving a double is exact
Halved(exponent) ==
    IF ~IsNum(exponent.n) THEN exponent
    ELSE IF exponent.n % 2 = 0 THEN Native(exponent.n \div 2, exponent.d)
    ELSE Native(exponent.n, 2 * exponent.d)

\* exponent - 1, rounded to a double
Predecessor(exponent) ==
    IF ~IsNum(exponent.n) THEN exponent
    ELSE Signed(exponent.n < exponent.d, Fl(Abs(exponent.n - exponent.d), exponent.d))

RECURSIVE exponentiationBySquaring(_, _, _)

\* the outcome of the recursive call as it is, with no multiplication
powNotMultiplied(base, inner) == inner

\* base.multiply(inner) once the recursive call has returned `inner`
powMultiplied(base, inner) ==
    IF inner.out.kind # "value" THEN inner
    ELSE Step(Value(multiply(base, inner.out.val, inner.zn).val),
              multiply(base, inner.out.val, inner.zn).zn)

\* the two recursive branches once base.multiply(base) is known
powSquared(base, exponent, squared) ==
    IF IsEvenNumber(exponent)
    THEN exponentiationBySquaring(squared.val, Halved(exponent), squared.zn)
    ELSE powMultiplied(base,
             exponentiationBySquaring(squared.val, Halved(Predecessor(exponent)),
                                      squared.zn))

\* The recursion is followed as long as the exponent is positive.  From NaN
\* or a negative exponent it never returns: NaN stays NaN, and a negative e
\* is neither 0 nor 1 and is followed by e / 2 or (e - 1) / 2, negative
\* again, each level squaring the base once more.
exponentiationBySquaring(base, exponent, zn) ==
    IF StrictEquals(exponent, 0) THEN Step(Value(ONE), zn)
    ELSE IF StrictEquals(exponent, 1) THEN Step(Value(base), zn)
    ELSE IF ~IsNum(exponent.n) \/ exponent.n < 0 THEN Step(Diverges, zn)
    ELSE powSquared(base, exponent, multiply(base, base, zn))

\* the outcome of x.pow(exponent) in a state whose ZERO.negative is zn
pow(x, exponent, zn) ==
    IF exponent.type # "number" THEN Step(Thrown("Exponent is not a number."), zn)
    ELSE IF IsNum(exponent.n) /\ exponent.n < 0
         THEN Step(Thrown("Negative exponent."), zn)
    ELSE exponentiationBySquaring(x, exponent, zn)

Pow ==
    /\ op = "none"
    /\ op' = "pow"
    /\ Return(pow(Deref(a), c, ZERO_negative))
    /\ UNCHANGED <<a, b, c, frame>>

MaxPowBase == 12

MaxPowExponent == 8

\* whole exponents; the negative ones -1 and -3/2; the fractions 1/2, 3/2
\* and 5/2; NaN; a string
Exponents ==
    {Native(e, 1) : e \in (0..MaxPowExponent) \cup {-1}}
        \cup {Native(-3, 2), Native(1, 2), Native(3, 2), Native(5, 2)}
        \cup {Native(NaN, 1), NotNative}

PowBases ==
    {BigIntegerFromNumber(n) : n \in (0 - MaxPowBase)..MaxPowBase} \cup {ZERO(FALSE)}

\* every base with every exponent, and the documented 2^64
PowArguments ==
    (PowBases \X Exponents) \cup {<<BigIntegerFromNumber(2), Native(64, 1)>>}

InitPow ==
    /\ ZERO_negative = FALSE
    /\ op = "none"
    /\ \E arguments \in PowArguments : a = arguments[1] /\ c = arguments[2]
    /\ b = ZERO(FALSE)
    /\ out = NoOutcome
    /\ frame = NoFrame

NextPow == Pow \/ Discard

SpecPow == InitPow /\ [][NextPow]_vars

--------------------------------------------------------------------------
(* Random numbers below a limit *)

\* BigInteger.random(a): any value the random digits can form
Random ==
    /\ op = "none"
    /\ op' = "random"
    /\ \E result \in random(Deref(a)) : out' = Value(result)
    /\ UNCHANGED <<a, b, c, ZERO_negative, frame>>

MaxLimit == 120

InitRandom ==
    /\ ZERO_negative = FALSE
    /\ op = "none"
    /\ a \in {BigIntegerFromNumber(n) : n \in 1..MaxLimit}
    /\ b = ZERO(FALSE)
    /\ c = NoArgument
    /\ out = NoOutcome
    /\ frame = NoFrame

NextRandom == Random \/ Discard

SpecRandom == InitRandom /\ [][NextRandom]_vars

--------------------------------------------------------------------------
(* The long-division loops of divide and modulo, one iteration at a time.   *)
(* The frame holds the locals of the loop, and what the last iteration did: *)
(* the position `at` and the dividend `before` it started from, its trial   *)
(* digit, the digit qt after the correction, and whether it stored qt in a  *)
(* quotient position that held a digit already.                             *)

\* divide reaches its while loop
generalDivide(x, y) ==
    /\ compare(abs(x), abs(y)) >= 0
    /\ compare(abs(x), MAX_NATIVE) >= 0
    /\ compare(abs(y), MAX_NATIVE) >= 0

\* modulo reaches its while loop
generalModulo(x, y) ==
    /\ ~isZero(y)
    /\ compare(abs(x), abs(y)) >= 0
    /\ compare(abs(x), MAX_NATIVE) >= 0
    /\ compare(abs(y), BigIntegerFromNumber(BASE)) >= 0

\* the locals at the head of the first iteration
entered(dividend, entry, quotient) ==
    [dividend |-> dividend, pos |-> entry.pos, useThreeDigits |-> entry.useThreeDigits,
     quotient |-> quotient, iterated |-> FALSE, before |-> dividend, at |-> entry.pos,
     trial |-> Undefined, qt |-> Undefined, again |-> FALSE]

\* the locals after an iteration whose corrected trial digit is qt; `next` is
\* the dividend, position and flag it leaves
iterated(loop, trial, qt, next, quotient) ==
    [dividend |-> next.dividend, pos |-> next.pos, useThreeDigits |-> next.useThreeDigits,
     quotient |-> quotient, iterated |-> TRUE, before |-> loop.dividend, at |-> loop.pos,
     trial |-> trial, qt |-> qt,
     again |-> quotient # loop.quotient /\ At(loop.quotient, loop.pos) # Undefined]

\* the rest of an iteration once the trial digit is corrected; modulo keeps
\* no quotient
iterationFrom(loop, divisor, trial, qt, keep) ==
    IF qt = 0
    THEN iterated(loop, trial, qt,
                  [dividend |-> loop.dividend, pos |-> loop.pos - 1, useThreeDigits |-> TRUE],
                  loop.quotient)
    ELSE iterated(loop, trial, qt,
                  afterSubtract(subtract(loop.dividend,
                                         multiplyOneDigit(divisor, qt, loop.pos)),
                                divisor, firstTwoDigits(divisor)),
                  IF keep THEN SetAt(loop.quotient, loop.pos, qt) ELSE loop.quotient)

\* one iteration of the while loop from its trial digit on
iterationOf(loop, divisor, trial, keep) ==
    iterationFrom(loop, divisor, trial,
                  corrected(trial, multiplyOneDigit(divisor, trial, loop.pos), loop.dividend),
                  keep)

iteration(loop, divisor, keep) ==
    iterationOf(loop, divisor,
                trialDigit(loop.dividend, firstTwoDigits(divisor), loop.useThreeDigits),
                keep)

\* a.divide(b) up to the head of its while loop, or to its return on another path
DivideCall ==
    /\ op = "none"
    /\ IF generalDivide(Deref(a), Deref(b))
       THEN /\ op' = "divide.loop"
            /\ out' = NoOutcome
            /\ frame' = entered(abs(Deref(a)), loopEntry(abs(Deref(a)), abs(Deref(b))),
                                [k \in 1..(loopEntry(abs(Deref(a)), abs(Deref(b))).pos + 1)
                                     |-> Undefined])
       ELSE /\ op' = "divide"
            /\ out' = divide(Deref(a), Deref(b), ZERO_negative)
            /\ frame' = NoFrame
    /\ UNCHANGED <<a, b, c, ZERO_negative>>

\* one iteration of the while loop of divide
DivideIteration ==
    /\ op = "divide.loop"
    /\ frame.pos >= 0
    /\ frame' = iteration(frame, abs(Deref(b)), TRUE)
    /\ UNCHANGED <<op, out, a, b, c, ZERO_negative>>

\* return new BigInteger(quotient, this.negative ^ other.negative)
DivideReturn ==
    /\ op = "divide.loop"
    /\ frame.pos < 0
    /\ op' = "divide"
    /\ out' = Value(BigInt(frame.quotient, Deref(a).negative # Deref(b).negative))
    /\ UNCHANGED <<a, b, c, ZERO_negative, frame>>

\* a.modulo(b) up to the head of its while loop, or to its return on another path
ModuloCall ==
    /\ op = "none"
    /\ IF generalModulo(Deref(a), Deref(b))
       THEN /\ op' = "modulo.loop"
            /\ out' = NoOutcome
            /\ frame' = entered(abs(Deref(a)), loopEntry(abs(Deref(a)), abs(Deref(b))), <<>>)
       ELSE /\ op' = "modulo"
            /\ out' = modulo(Deref(a), Deref(b))
            /\ frame' = NoFrame
    /\ UNCHANGED <<a, b, c, ZERO_negative>>

\* one iteration of the while loop of modulo
ModuloIteration ==
    /\ op = "modulo.loop"
    /\ frame.pos >= 0
    /\ frame' = iteration(frame, abs(Deref(b)), FALSE)
    /\ UNCHANGED <<op, out, a, b, c, ZERO_negative>>

\* return dividend
ModuloReturn ==
    /\ op = "modulo.loop"
    /\ frame.pos < 0
    /\ op' = "modulo"
    /\ out' = Value(frame.dividend)
    /\ UNCHANGED <<a, b, c, ZERO_negative, frame>>

MaxLongDividendLen == 4

MaxLongDivisorLen == 3

LongDivisionDigits == {0, 1, 8, 9}

InitLongDivision ==
    /\ ZERO_negative = FALSE
    /\ op = "none"
    /\ a \in LongOperands(LongDivisionDigits, MaxLongDividendLen)
    /\ b \in {y \in LongOperands(LongDivisionDigits, MaxLongDivisorLen) : ~y.negative}
    /\ c = NoArgument
    /\ out = NoOutcome
    /\ frame = NoFrame

NextLongDivision ==
    \/ DivideCall \/ DivideIteration \/ DivideReturn
    \/ ModuloCall \/ ModuloIteration \/ ModuloReturn
    \/ Discard

SpecLongDivision == InitLongDivision /\ [][NextLongDivision]_vars

--------------------------------------------------------------------------
(* Call histories: products and modular powers on the same operands, the   *)
(* shared BigInteger.ZERO among them                                        *)

MaxHistoryOperand == 3

HistoryOperands ==
    {BigIntegerFromNumber(n) : n \in (0 - MaxHistoryOperand)..MaxHistoryOperand}
        \cup {ZERO(FALSE)}

InitHistory ==
    /\ ZERO_negative = FALSE
    /\ op = "none"
    /\ a \in HistoryOperands
    /\ b \in HistoryOperands
    /\ c \in {BigIntegerFromNumber(n) : n \in 2..(2 + MaxHistoryOperand)}
    /\ out = NoOutcome
    /\ frame = NoFrame

NextHistory == Multiply \/ ModPow \/ Discard

SpecHistory == InitHistory /\ [][NextHistory]_vars

--------------------------------------------------------------------------
(* Conversion to a native number *)

\* x.toNumber()
toNumberCall(x) ==
    IF toNumberThrows(x) THEN Thrown("Value is to large to be represented by a Number.")
    ELSE Value(toNumber(x))

ToNumberCall ==
    /\ op = "none"
    /\ c = NoArgument
    /\ op' = "toNumber"
    /\ out' = toNumberCall(Deref(a))
    /\ UNCHANGED <<a, b, c, ZERO_negative, frame>>

\* new BigInteger(n).toNumber() for the native integer n held in c
NumberToNumber ==
    /\ op = "none"
    /\ c # NoArgument
    /\ op' = "new.toNumber"
    /\ out' = toNumberCall(BigIntegerFromNumber(c.n))
    /\ UNCHANGED <<a, b, c, ZERO_negative, frame>>

\* every digit value up to this length: all the integers up to MAX_NATIVE and beyond
MaxExactLen == 3

\* longer values, all above MAX_NATIVE
MaxLargeLen == 4

NumberOperands ==
    LongOperands(0..(BASE - 1), MaxExactLen) \cup LongOperands({0, 1, 9}, MaxLargeLen)

\* a BigInteger to convert, or a native integer to construct and convert back
NumberArguments ==
    (NumberOperands \X {NoArgument})
        \cup {<<ZERO(FALSE), Native(n, 1)>> :
                  n \in (0 - MAX_NATIVE_NUMBER)..MAX_NATIVE_NUMBER}

InitNumber ==
    /\ ZERO_negative = FALSE
    /\ op = "none"
    /\ \E arguments \in NumberArguments : a = arguments[1] /\ c = arguments[2]
    /\ b = ZERO(FALSE)
    /\ out = NoOutcome
    /\ frame = NoFrame

NextNumber == ToNumberCall \/ NumberToNumber \/ Discard

SpecNumber == InitNumber /\ [][NextNumber]_vars

--------------------------------------------------------------------------
(* The witnessLoops argument of isPrime: any JavaScript value *)

\* isPrime() called without an argument
UndefinedArgument == [type |-> "undefined", n |-> Undefined, d |-> 1]

\* isPrime(null)
NullArgument == [type |-> "null", n |-> 0, d |-> 1]

\* witnessLoops != undefined: null equals undefined under the loose comparison
LooseNotUndefined(witnessLoops) == witnessLoops.type \notin {"undefined", "null"}

\* witnessLoops < 1: false for NaN
LessThanOne(witnessLoops) == IsNum(witnessLoops.n) /\ witnessLoops.n < witnessLoops.d

\* the condition of the throw at the head of isPrime
incorrectParameter(witnessLoops) ==
    /\ LooseNotUndefined(witnessLoops)
    /\ \/ witnessLoops.type = "null"
       \/ witnessLoops.type # "number"
       \/ LessThanOne(witnessLoops)

\* if (witnessLoops === undefined) witnessLoops = 5
defaulted(witnessLoops) ==
    IF witnessLoops.type = "undefined" THEN Native(5, 1) ELSE witnessLoops

\* the number of times i < witnessLoops holds for i = 0, 1, 2, ...: null
\* converts to 0, NaN compares false, a fraction is rounded up
iterations(witnessLoops) ==
    IF ~IsNum(witnessLoops.n) \/ witnessLoops.n <= 0 THEN 0
    ELSE (witnessLoops.n + witnessLoops.d - 1) \div witnessLoops.d

\* isPrime from its early returns on, with the `rounds` iterations its for
\* loop will make: a loop of no iteration falls through to `return true`
Entered(filtered, rounds) ==
    /\ frame' = [witnessLoops |-> rounds, i |-> 0, a |-> NoWitness]
    /\ IF filtered = "test" /\ rounds = 0
       THEN op' = "isPrime" /\ out' = Value(TRUE)
       ELSE Filtered(filtered)

\* a.isPrime(c) up to the first witness loop, for any argument c
IsPrimeArgument ==
    /\ op = "none"
    /\ IF incorrectParameter(c)
       THEN /\ op' = "isPrime"
            /\ out' = Thrown("Number of witness loops must be a positive integer.")
            /\ frame' = NoFrame
       ELSE Entered(preFilter(Deref(a)), iterations(defaulted(c)))
    /\ UNCHANGED <<a, b, c, ZERO_negative>>

\* no argument, null, integers around 1, fractions, NaN and a string
WitnessLoopsArguments ==
    {UndefinedArgument, NullArgument, Native(NaN, 1), NotNative}
        \cup {Native(w, 1) : w \in -1..MaxWitnessLoops}
        \cup {Native(1, 2), Native(3, 2)}

InitWitnessLoops ==
    /\ ZERO_negative = FALSE
    /\ op = "none"
    /\ a \in {BigIntegerFromNumber(n) : n \in (0 - MaxCandidate)..MaxCandidate}
    /\ b = ZERO(FALSE)
    /\ c \in WitnessLoopsArguments
    /\ out = NoOutcome
    /\ frame = NoFrame

NextWitnessLoops == IsPrimeArgument \/ IsPrimeWitness \/ Discard

SpecWitnessLoops == InitWitnessLoops /\ [][NextWitnessLoops]_vars

--------------------------------------------------------------------------
(* Claims *)

\* C1: a.subtract(b) compares equal to the canonical BigInteger of the exact
\* integer difference a - b, for all canonical a and b.
C1_SubtractExact ==
    op = "subtract" => compare(Returned, Exact(IntOf(A) - IntOf(B))) = 0

\* C4: a.add(b) compares equal to the exact sum a + b; for operands of the
\* same sign the result carries that sign.
C4_AddExact ==
    op = "add" =>
        /\ compare(Returned, Exact(IntOf(A) + IntOf(B))) = 0
        /\ (A.negative = B.negative /\ ~isZero(A) /\ ~isZero(B))
               => Returned.negative = A.negative

\* C5: a.multiply(b) compares equal to the exact product with sign
\* sign(a) XOR sign(b), and is canonical zero (empty digits, sign false) as
\* soon as one operand is zero.
C5_MultiplyExact ==
    op = "multiply" =>
        /\ compare(Returned, Exact(IntOf(A) * IntOf(B))) = 0
        /\ (isZero(A) \/ isZero(B))
               => (Returned.digits = <<>> /\ Returned.negative = FALSE)

\* the integer n is a prime number
IsPrimeNumber(n) == n > 1 /\ \A k \in 2..(n - 1) : n % k # 0

\* C7: n.isPrime() returns true for every prime n, whatever witnessLoops and
\* whatever witnesses are drawn.
C7_PrimeIsAccepted ==
    (op = "isPrime" /\ IsPrimeNumber(IntOf(A))) => out = Value(TRUE)

\* C8: n.isPrime() returns false for every n > 3 divisible by 3, whatever
\* witnesses are drawn.
C8_MultipleOfThreeIsRejected ==
    (op = "isPrime" /\ IntOf(A) > 3 /\ IntOf(A) % 3 = 0) => out = Value(FALSE)

\* C9: a.add(b).subtract(b) equals a.
C9_AddSubtractRoundTrip ==
    op = "add.subtract" => compare(Returned, A) = 0


\* C2: for non-zero b, a.divide(b) compares equal to the BigInteger of
\* magnitude floor(|a| / |b|) and sign sign(a) XOR sign(b), on every path.
C2_DivideExact ==
    (op = "divide" /\ ~isZero(B)) =>
        /\ out.kind = "value"
        /\ compare(Returned,
                   Exact(IF A.negative # B.negative
                         THEN 0 - (Abs(IntOf(A)) \div Abs(IntOf(B)))
                         ELSE Abs(IntOf(A)) \div Abs(IntOf(B)))) = 0

\* C3: for non-zero b, a.modulo(b) returns r with 0 <= r < |b| and
\* |a| = |b| * floor(|a| / |b|) + r, whatever the signs and the path.
C3_ModuloExact ==
    (op = "modulo" /\ ~isZero(B)) =>
        /\ out.kind = "value"
        /\ \A i \in 1..Len(Returned.digits) : IsDigit(Returned.digits[i])
        /\ LET r == IntOf(Returned)
               m == Abs(IntOf(B))
           IN  /\ 0 <= r
               /\ r < m
               /\ Abs(IntOf(A)) = m * (Abs(IntOf(A)) \div m) + r

\* a modulo of mixed signs that went through the long division, whose first
\* trial digit was one too large and was corrected, and that returned the
\* non-zero remainder of the magnitudes
C3_LongDivisionCorrected ==
    /\ op = "modulo"
    /\ A.negative # B.negative
    /\ compare(abs(A), MAX_NATIVE) >= 0
    /\ compare(abs(B), BigIntegerFromNumber(BASE)) >= 0
    /\ corrected(trialDigit(abs(A), firstTwoDigits(abs(B)),
                            loopEntry(abs(A), abs(B)).useThreeDigits),
                 multiplyOneDigit(abs(B),
                     trialDigit(abs(A), firstTwoDigits(abs(B)),
                                loopEntry(abs(A), abs(B)).useThreeDigits),
                     loopEntry(abs(A), abs(B)).pos),
                 abs(A))
           # trialDigit(abs(A), firstTwoDigits(abs(B)),
                        loopEntry(abs(A), abs(B)).useThreeDigits)
    /\ out.kind = "value"
    /\ IntOf(Returned) > 0
    /\ IntOf(Returned) = Abs(IntOf(A)) % Abs(IntOf(B))

\* C6: a.divide(b) with b zero signals a division-by-zero error for every a.
C6_DivideByZeroThrows ==
    (op = "divide" /\ isZero(B)) => out.kind = "throw"

\* C10: for non-zero b, the magnitude of a.divide(b).multiply(b).add(a.modulo(b))
\* equals the magnitude of a.
C10_DivideMultiplyAddMagnitude ==
    (op = "divide.multiply.add" /\ ~isZero(B)) =>
        /\ out.kind = "value"
        /\ compare(abs(Returned), abs(A)) = 0

\* C11: for every BigInteger a and every base r in [2, 36],
\* BigInteger.valueOf(a.toString(r), r) equals a.
C11_ToStringValueOfRoundTrip ==
    op = "toString.valueOf" => (out.kind = "value" /\ compare(Returned, A) = 0)

\* C12: after any sequence of public operations the shared BigInteger.ZERO,
\* reached as a constant or as the receiver or the argument of a call, still
\* has the digits and the sign it was created with.
C12_SharedZeroUnchanged ==
    /\ ZERO(ZERO_negative) = ZERO(FALSE)
    /\ a.ref = "ZERO" => A = a
    /\ b.ref = "ZERO" => B = b

\* C13: every value returned by add, subtract or multiply on canonical
\* operands is canonical: every digit is an integer in 0..BASE-1, the most
\* significant digit is not zero, and zero has no digits.
C13_ArithmeticReturnsCanonical ==
    (op \in {"add", "subtract", "multiply"} /\ IsCanonical(A) /\ IsCanonical(B))
        => (out.kind = "value" /\ IsCanonical(Returned))

\* C14: no value returned by a constructor or by negate, abs, add, subtract,
\* multiply, divide, modulo or valueOf is a negative zero: when the returned
\* digits are empty the sign flag is false.
C14_NoNegativeZero ==
    (/\ op \in {"new", "negate", "abs", "add", "subtract", "multiply",
                "divide", "modulo", "valueOf"}
     /\ out.kind = "value"
     /\ isZero(Returned))
        => Returned.negative = FALSE

\* C15: for all a, a.add(ZERO) equals a, a.multiply(ZERO) equals ZERO and
\* a.multiply(ONE) equals a, where equals is a comparison result of 0.
C15_ZeroAndOneIdentities ==
    /\ (op = "add" /\ b.ref = "ZERO") =>
           (out.kind = "value" /\ equals(Returned, A))
    /\ (op = "multiply" /\ b.ref = "ZERO") =>
           (out.kind = "value" /\ equals(Returned, ZERO(ZERO_negative)))
    /\ (op = "multiply" /\ B = ONE) =>
           (out.kind = "value" /\ equals(Returned, A))

\* a long negative receiver multiplied by ONE, the product being itself
C15_LongNegativeTimesOne ==
    /\ op = "multiply"
    /\ B = ONE
    /\ A.negative
    /\ Len(A.digits) = MaxIdentityLen
    /\ Returned.digits = A.digits
    /\ Returned.negative

\* the sign of a comparison result
Sign(n) == IF n < 0 THEN -1 ELSE IF n > 0 THEN 1 ELSE 0

\* C16: on canonical values compare is a total order that agrees with the
\* integer order: its result is -1, 0 or 1 and is the sign of a - b, it is
\* antisymmetric and transitive, and equals, isGreaterThan and isLessThan
\* are true exactly when compare is 0, positive and negative.
C16_CompareIsTheIntegerOrder ==
    /\ op = "compare" =>
           /\ out = Value(Sign(IntOf(A) - IntOf(B)))
           /\ out.val = 0 - compare(B, A)
           /\ \A z \in OrderOperands :
                  (out.val <= 0 /\ compare(B, z) <= 0) => compare(A, z) <= 0
    /\ op = "equals" => out = Value(IntOf(A) = IntOf(B))
    /\ op = "isGreaterThan" => out = Value(IntOf(A) > IntOf(B))
    /\ op = "isLessThan" => out = Value(IntOf(A) < IntOf(B))

\* a comparison of two different numbers of the same sign and the same
\* length, decided by the digit loop below the most significant digit
C16_DecidedByLowerDigit ==
    /\ op = "compare"
    /\ A.negative /\ B.negative
    /\ Len(A.digits) = Len(B.digits) /\ Len(A.digits) > 1
    /\ A.digits[Len(A.digits)] = B.digits[Len(B.digits)]
    /\ out = Value(1)

\* base^exponent mod modulus for 0 <= base < modulus, on the integers
RECURSIVE PowerMod(_, _, _)
PowerMod(base, exponent, modulus) ==
    IF exponent = 0 THEN 1 % modulus
    ELSE IF exponent % 2 = 0
         THEN PowerMod((base * base) % modulus, exponent \div 2, modulus)
    ELSE (base * PowerMod(base, exponent - 1, modulus)) % modulus

PowerCap == 1000000000

\* base^exponent on the integers, or NaN when its magnitude is above
\* PowerCap: power is base^(the factors taken so far)
RECURSIVE PowerLoop(_, _, _)
PowerLoop(base, exponent, power) ==
    IF exponent = 0 THEN power
    ELSE IF base # 0 /\ Abs(power) > PowerCap \div Abs(base) THEN NaN
    ELSE PowerLoop(base, exponent - 1, base * power)

Power(base, exponent) == PowerLoop(base, exponent, 1)

\* C18: for every base, negative, zero or positive, and every whole native
\* exponent e >= 0, base.pow(e) returns base^e exactly; pow(0) is ONE for
\* every base, zero included.
C18_PowExact ==
    (op = "pow" /\ c.type = "number" /\ IsWhole(c) /\ c.n >= 0) =>
        /\ out.kind = "value"
        /\ IsCanonical(Returned)
        /\ c.n = 0 => compare(Returned, ONE) = 0
        /\ IsNum(Power(IntOf(A), c.n)) =>
               compare(Returned, Exact(Power(IntOf(A), c.n))) = 0
        /\ (IntOf(A) = 2 /\ c.n = 64) =>
               Returned.digits = <<6, 1, 6, 1, 5, 5, 9, 0, 7, 3, 7, 0, 4, 4, 7, 6, 4, 4, 8, 1>>

\* a negative base raised to an odd exponent above 1: the result is the
\* negative power, built by the odd branch of the recursion
C18_NegativeBaseOddExponent ==
    /\ op = "pow"
    /\ A.negative
    /\ c = Native(7, 1)
    /\ IntOf(A) = -12
    /\ out.kind = "value"
    /\ IntOf(Returned) = -35831808

\* C19: base.pow(e) throws an invalid-exponent error, and does not diverge,
\* whenever the number e is negative or is not whole.
C19_InvalidExponentThrows ==
    (op = "pow" /\ c.type = "number" /\ IsNum(c.n) /\ (c.n < 0 \/ ~IsWhole(c)))
        => out.kind = "throw"

\* C20: new BigInteger(str) signals a malformed-input error, and returns no
\* value, when str without its leading '-' is empty or holds a character
\* that is no decimal digit.
C20_MalformedStringThrows ==
    (/\ op = "new"
     /\ \/ Len(c.str) = 0
        \/ c.str = <<"-">>
        \/ \E i \in 1..Len(c.str) :
               indexOf(DecimalDigits, c.str[i]) < 0 /\ ~(i = 1 /\ c.str[1] = "-"))
        => out.kind = "throw"

\* the string is an optional '-' followed by at least one decimal digit
IsDecimalString(str) ==
    /\ Len(str) > (IF Len(str) > 0 /\ str[1] = "-" THEN 1 ELSE 0)
    /\ \A i \in 1..Len(str) :
           indexOf(DecimalDigits, str[i]) >= 0 \/ (i = 1 /\ str[1] = "-")

\* C21: new BigInteger(s) for a decimal string s, leading zeros allowed, and
\* new BigInteger(n) for a native integer n are canonical: no most significant
\* zero digit, every digit in 0..BASE-1; a string of zeros gives empty digits
\* and a false sign, with or without a leading '-'.
C21_ConstructedIsCanonical ==
    /\ (op = "new" /\ IsDecimalString(c.str)) =>
           /\ out.kind = "value"
           /\ IsCanonical(Returned)
           /\ isZero(Returned) => Returned.negative = FALSE
    /\ op = "new.number" =>
           (out.kind = "value" /\ IsCanonical(Returned))

\* C22: for every limit > 0 the possible results of BigInteger.random(limit)
\* are exactly the integers of [0, limit): every result is in the range and
\* every value of the range is a possible result.
C22_RandomCoversRange ==
    (op = "random" /\ IntOf(A) > 0) =>
        /\ out.kind = "value"
        /\ IntOf(Returned) \in 0..(IntOf(A) - 1)
        /\ {IntOf(result) : result \in random(A)} = 0..(IntOf(A) - 1)

\* the argument is supplied and is a positive whole number
PositiveWhole(witnessLoops) ==
    /\ witnessLoops.type = "number"
    /\ IsWhole(witnessLoops)
    /\ witnessLoops.n > 0

\* C23: n.isPrime(w) ends with the invalid-witness-count error whenever w is
\* supplied and is not a positive whole number (null, zero, a negative number,
\* a fraction, NaN, a value that is no number); it returns no verdict then.
C23_InvalidWitnessLoopsThrows ==
    (op = "isPrime" /\ c.type # "undefined" /\ ~PositiveWhole(c)) =>
        out = Thrown("Number of witness loops must be a positive integer.")

RECURSIVE Weight(_)
Weight(pos) == IF pos <= 0 THEN 1 ELSE BASE * Weight(pos - 1)

\* the divisor of the running long division, shifted to the position of the
\* last iteration
ShiftedDivisor == Magnitude(B.digits) * Weight(frame.at)

\* the quotient digit of the last iteration in exact arithmetic
TrueDigit == Magnitude(frame.before.digits) \div ShiftedDivisor

InLoop == op \in {"divide.loop", "modulo.loop"} /\ frame.iterated

\* C25: in the long-division loops of divide and modulo, at every iteration
\* the trial digit is the true quotient digit at position pos or one more,
\* and after the single decrement the product is at most the working dividend
\* and the rest is below divisor * BASE^pos.
C25_TrialDigitWithinOne ==
    InLoop =>
        /\ frame.trial \in {TrueDigit, TrueDigit + 1}
        /\ frame.qt * ShiftedDivisor <= Magnitude(frame.before.digits)
        /\ Magnitude(frame.before.digits) - frame.qt * ShiftedDivisor < ShiftedDivisor

\* C26: when divide takes the general long-division path, the quotient it
\* returns is canonical: every index of its digit array holds an integer of
\* [0, BASE), the positions of zero quotient digits included, and the most
\* significant one is not zero.
C26_LongQuotientIsCanonical ==
    (op = "divide" /\ generalDivide(A, B)) =>
        (out.kind = "value" /\ IsCanonical(Returned))

\* divide routes to divideByNativeNumber
byNativeNumber(x, y) ==
    /\ compare(abs(x), abs(y)) >= 0
    /\ compare(abs(x), MAX_NATIVE) >= 0
    /\ compare(abs(y), MAX_NATIVE) < 0
    /\ ~isZero(y)

\* the values BASE * carry + digits[i] of the pass of divideByNativeNumber
\* from index i down, before they are rounded to doubles; the carry of the
\* next index is the one the pass computes from the rounded value
RECURSIVE Intermediate(_, _, _, _)
Intermediate(d, number, i, carry) ==
    IF i < 0 THEN {}
    ELSE {BASE * carry + At(d, i)}
             \cup Intermediate(d, number, i - 1,
                               FlInt(JsAdd(FlInt(BASE * carry), At(d, i))) % number)

\* C27: whenever divide routes to divideByNativeNumber, every value
\* BASE * carry + digit of the pass is at most MAX_NATIVE, so that the native
\* accumulator holds it exactly.
C27_AccumulatorIsExact ==
    (op = "divide" /\ byNativeNumber(A, B)) =>
        \A result \in Intermediate(A.digits, Magnitude(B.digits), Len(A.digits) - 1, 0) :
            result <= MAX_NATIVE_NUMBER

\* C28: the long-division loops of divide and modulo make progress to their
\* end: an iteration never leaves pos above the position it started from, and
\* it never stores a digit in a quotient position that holds one already.
C28_LoopProgress ==
    InLoop => (frame.pos <= frame.at /\ ~frame.again)

\* m = OddPart(m) * 2^TwoCount(m) for m > 0
RECURSIVE OddPart(_)
OddPart(m) == IF m % 2 = 0 THEN OddPart(m \div 2) ELSE m

RECURSIVE TwoCount(_)
TwoCount(m) == IF m % 2 = 0 THEN 1 + TwoCount(m \div 2) ELSE 0

\* the Miller-Rabin condition of the witness w for n, with n - 1 = d * 2^count
\* and d odd: w^d mod n = 1, or w^(d * 2^r) mod n = n - 1 for some r < count
PassesFor(w, n, d, count) ==
    \/ PowerMod(w % n, d, n) = 1
    \/ \E r \in 0..(count - 1) : PowerMod(w % n, d * Power(2, r), n) = n - 1

Passes(w, n) == PassesFor(w, n, OddPart(n - 1), TwoCount(n - 1))

\* C29: for every odd n > 3 that passes the pre-filter, each witness round
\* passes exactly when its witness satisfies the Miller-Rabin condition;
\* isPrime returns false at the first round that fails and true only after
\* all its rounds have passed.
C29_VerdictIsMillerRabin ==
    /\ op = "isPrime.loop" =>
           \A rand \in random(subtract(A, THREE)) :
               witnessRound(A, rand, ZERO_negative).out
                   = Value(Passes(IntOf(add(rand, TWO)), IntOf(A)))
    /\ (op = "isPrime" /\ frame.i > 0) =>
           /\ out = Value(Passes(IntOf(frame.a), IntOf(A)))
           /\ out = Value(TRUE) => frame.i = frame.witnessLoops

\* the same error, or two values that compare equal
SameOutcome(first, second) ==
    IF first.kind = "value" /\ second.kind = "value"
    THEN compare(first.val, second.val) = 0
    ELSE first = second

\* C30: the outcome of a call depends only on its receiver and arguments, not
\* on the calls made before it: multiply and modPow end as they do when they
\* are the first call on these operands, and x.modPow(BigInteger.ZERO, m)
\* returns ONE in every reachable state.
C30_OutcomeIndependentOfHistory ==
    /\ op = "multiply" => SameOutcome(out, Value(multiply(a, b, FALSE).val))
    /\ op = "modPow" => SameOutcome(out, modPow(a, b, c, FALSE).out)
    /\ (op = "modPow" /\ b.ref = "ZERO") => out = Value(ONE)

====
